---- MODULE Spec2Model ----
(***************************************************************************)
(* A model of bvzconfig.Config (src/src/bvzconfig.py): a wrapper that      *)
(* keeps two configparser.ConfigParser objects read from one file, the     *)
(* "delimited" one (delimiters "=") and the "undelimited" one (delimiters  *)
(* "\n"), and of bvzconfigerror.ConfigError.                               *)
(*                                                                         *)
(* Text is a sequence of one-character strings.  A parser object is a      *)
(* record [defaults, sections]: defaults is an ordered dict, sections an   *)
(* ordered dict of ordered dicts.  An ordered dict is a sequence of        *)
(* <<key, value>> pairs with distinct keys (python dicts keep insertion    *)
(* order).  A stored value is NoValue (python None) or Some(text).         *)
(***************************************************************************)
EXTENDS Integers, Sequences, FiniteSets, TLC

VARIABLES
    fs,      \* what the path config_p names on disk: [kind, lines]
    objs,    \* the Config objects: id -> [state, config_p, delimited, undelimited]
    ret,     \* the last call and its outcome: [op, args, exc, val]
    ncalls   \* the number of calls made so far

vars == <<fs, objs, ret, ncalls>>

----------------------------------------------------------------------------
(* Text helpers: str.strip, str.rstrip, str.find, str.upper, "".join       *)

NoValue == <<>>
Some(t) == <<t>>

IsSpace(c) == c \in {" ", "\t", "\n"}

RECURSIVE LStrip(_)
LStrip(s) == IF s = <<>> THEN s
             ELSE IF IsSpace(Head(s)) THEN LStrip(Tail(s)) ELSE s

RECURSIVE RStrip(_)
RStrip(s) == IF s = <<>> THEN s
             ELSE IF IsSpace(s[Len(s)]) THEN RStrip(SubSeq(s, 1, Len(s) - 1)) ELSE s

Strip(s) == LStrip(RStrip(s))

\* str.find: the first index of c in s, 0 when there is none
Find(s, c) ==
    IF \E i \in 1..Len(s) : s[i] = c
    THEN CHOOSE i \in 1..Len(s) : s[i] = c /\ \A j \in 1..(i - 1) : s[j] # c
    ELSE 0

\* the last index of c in s, 0 when there is none
RFind(s, c) ==
    IF \E i \in 1..Len(s) : s[i] = c
    THEN CHOOSE i \in 1..Len(s) : s[i] = c /\ \A j \in (i + 1)..Len(s) : s[j] # c
    ELSE 0

UpperChar(c) ==
    CASE c = "a" -> "A" [] c = "b" -> "B" [] c = "e" -> "E" [] c = "f" -> "F"
      [] c = "l" -> "L" [] c = "n" -> "N" [] c = "o" -> "O" [] c = "r" -> "R"
      [] c = "s" -> "S" [] c = "t" -> "T" [] c = "u" -> "U" [] c = "x" -> "X"
      [] c = "y" -> "Y" [] c = "c" -> "C" [] c = "g" -> "G"
      [] OTHER -> c

Upper(s) == [i \in 1..Len(s) |-> UpperChar(s[i])]

\* "\n".join(lines)
RECURSIVE JoinLines(_)
JoinLines(ls) ==
    IF ls = <<>> THEN <<>>
    ELSE IF Len(ls) = 1 THEN ls[1]
    ELSE ls[1] \o <<"\n">> \o JoinLines(Tail(ls))

\* text.split("\n")
RECURSIVE SplitLines(_)
SplitLines(t) ==
    LET i == Find(t, "\n")
    IN  IF i = 0 THEN <<t>>
        ELSE <<SubSeq(t, 1, i - 1)>> \o SplitLines(SubSeq(t, i + 1, Len(t)))

----------------------------------------------------------------------------
(* Ordered dicts                                                           *)

HasKey(d, k) == \E i \in 1..Len(d) : d[i][1] = k
Lookup(d, k) == d[CHOOSE i \in 1..Len(d) : d[i][1] = k][2]
Put(d, k, v) ==
    IF HasKey(d, k)
    THEN [i \in 1..Len(d) |-> IF d[i][1] = k THEN <<k, v>> ELSE d[i]]
    ELSE Append(d, <<k, v>>)
Keys(d) == [i \in 1..Len(d) |-> d[i][1]]
KeySet(d) == {d[i][1] : i \in 1..Len(d)}
Remove(d, k) == SelectSeq(d, LAMBDA e : e[1] # k)
\* d1.copy().update(d2): d1's keys in order (values overridden), then d2's new keys
RECURSIVE Update(_, _)
Update(d1, d2) ==
    IF d2 = <<>> THEN d1 ELSE Update(Put(d1, d2[1][1], d2[1][2]), Tail(d2))

DEFAULTSECT == <<"D", "E", "F", "A", "U", "L", "T">>

EmptyParser == [defaults |-> <<>>, sections |-> <<>>]

----------------------------------------------------------------------------
(* ConfigParser.read of one file, as configured at bvzconfig.py:59-64 and  *)
(* 87-92: allow_no_value, empty_lines_in_values, strict, optionxform = str,*)
(* comment prefixes "#" and ";", no inline comments.                       *)

CommentPrefixes == {"#", ";"}

\* index (from 0) of the first non-blank character of the raw line
Indent(line) == Len(line) - Len(LStrip(line))

\* SECTCRE "\[(?P<header>.+)\]" matched at the start of the stripped line
IsHeader(value) ==
    /\ Len(value) >= 3
    /\ value[1] = "["
    /\ RFind(value, "]") >= 3
HeaderName(value) == SubSeq(value, 2, RFind(value, "]") - 1)

\* OPTCRE_NV "(?P<option>.*?)\s*(?:(?P<vi>delim)\s*(?P<value>.*))?$"
OptName(value, delim) ==
    LET i == Find(value, delim)
    IN  IF i = 0 THEN value ELSE RStrip(SubSeq(value, 1, i - 1))
OptVal(value, delim) ==
    LET i == Find(value, delim)
    IN  IF i = 0 THEN NoValue ELSE Some(Strip(SubSeq(value, i + 1, Len(value))))

ParseStart ==
    [sections |-> <<>>, defaults |-> <<>>, sectname |-> NoValue, optname |-> NoValue,
     indent_level |-> 0, added |-> {}, perr |-> FALSE, exc |-> ""]

CurDict(st) ==
    IF st.sectname[1] = DEFAULTSECT THEN st.defaults ELSE Lookup(st.sections, st.sectname[1])
SetCur(st, k, v) ==
    IF st.sectname[1] = DEFAULTSECT
    THEN [st EXCEPT !.defaults = Put(@, k, v)]
    ELSE [st EXCEPT !.sections = Put(@, st.sectname[1], Put(Lookup(@, st.sectname[1]), k, v))]

\* "cursect is not None and optname"
InOption(st) == st.sectname # NoValue /\ st.optname # NoValue /\ st.optname[1] # <<>>

\* one iteration of the loop of ConfigParser._read
ReadLine(st, line, delim) ==
    LET stripped == Strip(line)
        comment  == stripped # <<>> /\ stripped[1] \in CommentPrefixes
        value    == IF comment THEN <<>> ELSE stripped
    IN
    IF st.exc # "" THEN st
    ELSE IF value = <<>> THEN
        \* empty_lines_in_values: a blank line is added to the current value
        IF ~comment /\ InOption(st) /\ Lookup(CurDict(st), st.optname[1]) # NoValue
        THEN SetCur(st, st.optname[1],
                    Some(Append(Lookup(CurDict(st), st.optname[1])[1], <<>>)))
        ELSE st
    ELSE IF InOption(st) /\ Indent(line) > st.indent_level THEN
        \* continuation line: cursect[optname].append(value)
        IF Lookup(CurDict(st), st.optname[1]) = NoValue
        THEN [st EXCEPT !.exc = "AttributeError"]
        ELSE SetCur(st, st.optname[1],
                    Some(Append(Lookup(CurDict(st), st.optname[1])[1], value)))
    ELSE
        LET st1 == [st EXCEPT !.indent_level = Indent(line)] IN
        IF IsHeader(value) THEN
            LET name == HeaderName(value) IN
            IF HasKey(st1.sections, name)
            THEN [st1 EXCEPT !.exc = "DuplicateSectionError"]
            ELSE IF name = DEFAULTSECT
            THEN [st1 EXCEPT !.sectname = Some(name), !.optname = NoValue]
            ELSE [st1 EXCEPT !.sections = Append(@, <<name, <<>>>>),
                             !.sectname = Some(name), !.optname = NoValue]
        ELSE IF st1.sectname = NoValue
        THEN [st1 EXCEPT !.exc = "MissingSectionHeaderError"]
        ELSE
            LET optname == OptName(value, delim)
                optval  == OptVal(value, delim)
                st2     == [st1 EXCEPT !.perr = @ \/ optname = <<>>,
                                       !.optname = Some(optname)]
            IN  IF <<st2.sectname[1], optname>> \in st2.added
                THEN [st2 EXCEPT !.exc = "DuplicateOptionError"]
                ELSE SetCur([st2 EXCEPT !.added = @ \cup {<<st2.sectname[1], optname>>}],
                            optname,
                            IF optval = NoValue THEN NoValue ELSE Some(<<optval[1]>>))

RECURSIVE ReadLines(_, _, _)
ReadLines(st, lines, delim) ==
    IF lines = <<>> THEN st
    ELSE ReadLines(ReadLine(st, Head(lines), delim), Tail(lines), delim)

\* ConfigParser._join_multiline_values: "\n".join(val).rstrip()
JoinValues(d) ==
    [i \in 1..Len(d) |->
        <<d[i][1], IF d[i][2] = NoValue THEN NoValue
                   ELSE Some(RStrip(JoinLines(d[i][2][1])))>>]

\* the outcome of ConfigParser.read on the file's lines: [exc, parser]
ReadFile(lines, delim) ==
    LET st == ReadLines(ParseStart, lines, delim)
    IN  [exc    |-> IF st.exc # "" THEN st.exc
                    ELSE IF st.perr THEN "ParsingError" ELSE "",
         parser |-> [defaults |-> JoinValues(st.defaults),
                     sections |-> [i \in 1..Len(st.sections) |->
                                     <<st.sections[i][1], JoinValues(st.sections[i][2])>>]]]

----------------------------------------------------------------------------
(* Python values passed by callers, and str() of them                      *)

PyStr(t)  == [t |-> "str",  s |-> t,    n |-> 0, b |-> FALSE]
PyInt(k)  == [t |-> "int",  s |-> <<>>, n |-> k, b |-> FALSE]
PyBool(x) == [t |-> "bool", s |-> <<>>, n |-> 0, b |-> x]
PyNone    == [t |-> "none", s |-> <<>>, n |-> 0, b |-> FALSE]

Digit(d) == CASE d = 0 -> "0" [] d = 1 -> "1" [] d = 2 -> "2" [] d = 3 -> "3"
              [] d = 4 -> "4" [] d = 5 -> "5" [] d = 6 -> "6" [] d = 7 -> "7"
              [] d = 8 -> "8" [] OTHER -> "9"

RECURSIVE Decimal(_)
Decimal(k) == IF k < 10 THEN <<Digit(k)>> ELSE Decimal(k \div 10) \o <<Digit(k % 10)>>

\* str(value), bvzconfig.py:359
Str(v) ==
    CASE v.t = "str"  -> v.s
      [] v.t = "int"  -> Decimal(v.n)
      [] v.t = "bool" -> IF v.b THEN <<"T", "r", "u", "e">> ELSE <<"F", "a", "l", "s", "e">>
      [] OTHER        -> <<"N", "o", "n", "e">>

Digits == {"0", "1", "2", "3", "4", "5", "6", "7", "8", "9"}

\* int(text) succeeds: blanks stripped, an optional sign, then digits
IntParses(t) ==
    LET s == Strip(t)
        body == IF s # <<>> /\ s[1] \in {"+", "-"} THEN Tail(s) ELSE s
    IN  body # <<>> /\ \A i \in 1..Len(body) : body[i] \in Digits

----------------------------------------------------------------------------
(* ConfigParser's BasicInterpolation, which bvzconfig.py:59 and 87 leave   *)
(* switched on                                                             *)

\* value.replace("%%", "")
RECURSIVE StripEscapes(_)
StripEscapes(s) ==
    IF Len(s) < 2 THEN s
    ELSE IF s[1] = "%" /\ s[2] = "%" THEN StripEscapes(SubSeq(s, 3, Len(s)))
    ELSE <<s[1]>> \o StripEscapes(Tail(s))

\* the end of a match of _KEYCRE "%\(([^)]+)\)s" at the start of s, or 0
KeyRefEnd(s) ==
    LET close == Find(s, ")")
    IN  IF /\ Len(s) >= 5 /\ s[1] = "%" /\ s[2] = "("
           /\ close >= 4 /\ close < Len(s) /\ s[close + 1] = "s"
        THEN close + 1 ELSE 0

\* _KEYCRE.sub("", s)
RECURSIVE StripKeyRefs(_)
StripKeyRefs(s) ==
    IF s = <<>> THEN s
    ELSE IF KeyRefEnd(s) > 0 THEN StripKeyRefs(SubSeq(s, KeyRefEnd(s) + 1, Len(s)))
    ELSE <<s[1]>> \o StripKeyRefs(Tail(s))

\* BasicInterpolation.before_set accepts the value
BeforeSetAccepts(value) == Find(StripKeyRefs(StripEscapes(value)), "%") = 0

\* BasicInterpolation._interpolate_some over the option map m: [exc, text].
\* InterpolateSome scans to the next "%"; InterpolateAt handles what follows
\* it; InterpolateRef handles a "%(name)s" reference whose match ends at e.
RECURSIVE InterpolateSome(_, _, _)

\* accum.append(v) after the text before it, then the rest of the loop
InterpolateJoin(before, v, r) ==
    IF v.exc # "" THEN v
    ELSE [exc |-> r.exc, text |-> before \o v.text \o r.text]

InterpolateVar(before, var, tail, m, depth) ==
    IF ~HasKey(m, var)
    THEN [exc |-> "InterpolationMissingOptionError", text |-> <<>>]
    ELSE IF Lookup(m, var) = NoValue
    THEN [exc |-> "TypeError", text |-> <<>>]
    ELSE InterpolateJoin(before,
                         InterpolateSome(Lookup(m, var)[1], m, depth + 1),
                         InterpolateSome(tail, m, depth))

InterpolateRef(before, after, e, m, depth) ==
    IF e = 0 THEN [exc |-> "InterpolationSyntaxError", text |-> <<>>]
    ELSE InterpolateVar(before, SubSeq(after, 3, e - 2),
                        SubSeq(after, e + 1, Len(after)), m, depth)

InterpolateAt(before, after, m, depth) ==
    IF Len(after) >= 2 /\ after[2] = "%"
    THEN InterpolateJoin(before, [exc |-> "", text |-> <<"%">>],
                         InterpolateSome(SubSeq(after, 3, Len(after)), m, depth))
    ELSE IF Len(after) >= 2 /\ after[2] = "("
    THEN InterpolateRef(before, after, KeyRefEnd(after), m, depth)
    ELSE [exc |-> "InterpolationSyntaxError", text |-> <<>>]

InterpolateFrom(rest, p, m, depth) ==
    IF p = 0 THEN [exc |-> "", text |-> rest]
    ELSE InterpolateAt(SubSeq(rest, 1, p - 1), SubSeq(rest, p, Len(rest)), m, depth)

InterpolateSome(rest, m, depth) ==
    IF depth > 10 THEN [exc |-> "InterpolationDepthError", text |-> <<>>]
    ELSE InterpolateFrom(rest, Find(rest, "%"), m, depth)

----------------------------------------------------------------------------
(* The ConfigParser methods the wrapper calls                              *)

has_section(p, section) == HasKey(p.sections, section)

SectionDict(p, section) ==
    IF HasKey(p.sections, section) THEN Lookup(p.sections, section) ELSE <<>>

\* the ChainMap of the section over the defaults (RawConfigParser._unify_values)
Unified(p, section) == Update(p.defaults, SectionDict(p, section))

has_option(p, section, option) ==
    IF section = <<>> \/ section = DEFAULTSECT THEN HasKey(p.defaults, option)
    ELSE IF ~HasKey(p.sections, section) THEN FALSE
    ELSE HasKey(Lookup(p.sections, section), option) \/ HasKey(p.defaults, option)

\* BasicInterpolation.before_get on a stored text: [exc, val]
BeforeGet(r) == [exc |-> r.exc, val |-> IF r.exc = "" THEN Some(r.text) ELSE NoValue]

\* the lookup of option in the unified map d, then the interpolation
GetFrom(d, option) ==
    IF ~HasKey(d, option) THEN [exc |-> "NoOptionError", val |-> NoValue]
    ELSE IF Lookup(d, option) = NoValue THEN [exc |-> "", val |-> NoValue]
    ELSE BeforeGet(InterpolateSome(Lookup(d, option)[1], d, 1))

\* ConfigParser.get(section, option): [exc, val], val a stored value
get(p, section, option) ==
    IF ~HasKey(p.sections, section) /\ section # DEFAULTSECT
    THEN [exc |-> "NoSectionError", val |-> NoValue]
    ELSE GetFrom(Unified(p, section), option)

\* ConfigParser.options(section): [exc, val]
parser_options(p, section) ==
    IF ~HasKey(p.sections, section) THEN [exc |-> "NoSectionError", val |-> <<>>]
    ELSE [exc |-> "", val |-> Keys(Update(Lookup(p.sections, section), p.defaults))]

\* ConfigParser.set(section, option, value), option a python value, value a
\* text: [exc, parser]
set(p, section, option, value) ==
    IF option.t # "str" THEN [exc |-> "TypeError", parser |-> p]
    ELSE IF value # <<>> /\ ~BeforeSetAccepts(value)
    THEN [exc |-> "ValueError", parser |-> p]
    ELSE IF section = <<>> \/ section = DEFAULTSECT
    THEN [exc |-> "", parser |-> [p EXCEPT !.defaults = Put(@, option.s, Some(value))]]
    ELSE IF ~HasKey(p.sections, section)
    THEN [exc |-> "NoSectionError", parser |-> p]
    ELSE [exc |-> "",
          parser |-> [p EXCEPT !.sections =
                         Put(@, section, Put(Lookup(@, section), option.s, Some(value)))]]

remove_section(p, section) == [p EXCEPT !.sections = Remove(@, section)]

\* ConfigParser.add_section(section): [exc, parser]
add_section(p, section) ==
    IF section = DEFAULTSECT THEN [exc |-> "ValueError", parser |-> p]
    ELSE IF HasKey(p.sections, section) THEN [exc |-> "DuplicateSectionError", parser |-> p]
    ELSE [exc |-> "", parser |-> [p EXCEPT !.sections = Append(@, <<section, <<>>>>)]]

\* str(value).replace("\n", "\n\t")
RECURSIVE IndentContinuations(_)
IndentContinuations(t) ==
    IF t = <<>> THEN t
    ELSE IF t[1] = "\n" THEN <<"\n", "\t">> \o IndentContinuations(Tail(t))
    ELSE <<t[1]>> \o IndentContinuations(Tail(t))

\* _write_section without the "value is not None" test: an option without
\* a value is written as "key = "
RECURSIVE WriteOptionsAllValued(_)
WriteOptionsAllValued(d) ==
    IF d = <<>> THEN <<>>
    ELSE (IF d[1][2] = NoValue THEN <<d[1][1] \o <<" ", "=", " ">>>>
          ELSE SplitLines(d[1][1] \o <<" ", "=", " ">> \o IndentContinuations(d[1][2][1])))
         \o WriteOptionsAllValued(Tail(d))

\* RawConfigParser._write_section: the lines written for one section
RECURSIVE WriteOptions(_)
WriteOptions(d) ==
    IF d = <<>> THEN <<>>
    ELSE (IF d[1][2] = NoValue THEN <<d[1][1]>>
          ELSE SplitLines(d[1][1] \o <<" ", "=", " ">> \o IndentContinuations(d[1][2][1])))
         \o WriteOptions(Tail(d))

WriteSection(name, d) == <<<<"[">> \o name \o <<"]">>>> \o WriteOptions(d) \o << <<>> >>

RECURSIVE WriteSections(_)
WriteSections(ss) ==
    IF ss = <<>> THEN <<>>
    ELSE WriteSection(ss[1][1], ss[1][2]) \o WriteSections(Tail(ss))

\* RawConfigParser.write: the lines of the file written
write(p) ==
    (IF p.defaults # <<>> THEN WriteSection(DEFAULTSECT, p.defaults) ELSE <<>>)
    \o WriteSections(p.sections)

----------------------------------------------------------------------------
(* bvzconfigerror.ConfigError and the file system                          *)

ConfigError(message, errno) == [message |-> message, code |-> errno]

\* the process's working directory and the path every Config is given
Cwd == <<"/", "w">>
ConfigPath == <<"c", ".", "i", "n", "i">>

\* os.path.abspath of a path without "." and ".." components
Abspath(path) ==
    IF path # <<>> /\ path[1] = "/" THEN path ELSE Cwd \o <<"/">> \o path

\* os.path.exists: true of a file and of a directory
PathExists(f) == f.kind # "missing"

\* ConfigParser.read(path): an OSError of open() (a directory) is swallowed
ReadPath(f, delim) ==
    IF f.kind = "file" THEN ReadFile(f.lines, delim)
    ELSE [exc |-> "", parser |-> EmptyParser]

_read_config_with_delimiters(f) == ReadPath(f, "=")
_read_config_without_delimiters(f) == ReadPath(f, "\n")

----------------------------------------------------------------------------
(* Config                                                                  *)

Uninit == [state |-> "uninit", config_p |-> <<>>,
           delimited |-> EmptyParser, undelimited |-> EmptyParser]

\* Config.__init__: [exc, val, obj]
init(config_p, f) ==
    IF ~PathExists(f)
    THEN [exc |-> "ConfigError",
          val |-> ConfigError(<<"Cannot locate config file: ">> \o Abspath(config_p), 2),
          obj |-> Uninit]
    ELSE
        LET d == _read_config_with_delimiters(f)
            u == _read_config_without_delimiters(f)
        IN  IF d.exc # "" THEN [exc |-> d.exc, val |-> NoValue, obj |-> Uninit]
            ELSE IF u.exc # "" THEN [exc |-> u.exc, val |-> NoValue, obj |-> Uninit]
            ELSE [exc |-> "", val |-> NoValue,
                  obj |-> [state |-> "loaded", config_p |-> config_p,
                           delimited |-> d.parser, undelimited |-> u.parser]]

\* the type checks of validate on one (setting, setting_type): [exc, val]
CheckValue(g, section, setting, setting_type) ==
    IF setting_type \notin {"bool", "int"} THEN [exc |-> "", val |-> NoValue]
    ELSE IF g.exc # "" THEN [exc |-> g.exc, val |-> NoValue]
    ELSE IF setting_type = "bool" THEN
        IF g.val = NoValue THEN [exc |-> "AttributeError", val |-> NoValue]
        ELSE IF Upper(g.val[1]) \notin {<<"T", "R", "U", "E">>, <<"F", "A", "L", "S", "E">>}
        THEN [exc |-> "", val |-> <<section, Some(setting), Some("boolean")>>]
        ELSE [exc |-> "", val |-> NoValue]
    ELSE
        IF g.val = NoValue THEN [exc |-> "TypeError", val |-> NoValue]
        ELSE IF ~IntParses(g.val[1])
        THEN [exc |-> "", val |-> <<section, Some(setting), Some("integer")>>]
        ELSE [exc |-> "", val |-> NoValue]

CheckType(p, section, setting, setting_type) ==
    CheckValue(get(p, section, setting), section, setting, setting_type)

\* the inner loop of validate over one section's settings: [exc, val]
RECURSIVE CheckSettings(_, _, _)

\* the rest of the loop after the type check t of the first setting
CheckRest(t, p, section, settings) ==
    IF t.exc # "" \/ t.val # NoValue THEN t
    ELSE CheckSettings(p, section, Tail(settings))

CheckSetting(p, section, setting, setting_type, settings) ==
    IF setting = <<>> THEN CheckSettings(p, section, Tail(settings))
    ELSE IF ~has_option(p, section, setting)
    THEN [exc |-> "", val |-> <<section, Some(setting), NoValue>>]
    ELSE CheckRest(CheckType(p, section, setting, setting_type), p, section, settings)

CheckSettings(p, section, settings) ==
    IF settings = <<>> THEN [exc |-> "", val |-> NoValue]
    ELSE CheckSetting(p, section, settings[1][1], settings[1][2], settings)

\* Config.validate(sections): [exc, val]; val is NoValue (python None) or the
\* tuple <<section, NoValue | Some(setting), NoValue | Some(type name)>>.
\* sections is the dict in its order: <<section, NoValue | Some(settings)>>
RECURSIVE validate(_, _)

\* the rest of the outer loop after the settings check r of the first section
ValidateRest(r, obj, sections) ==
    IF r.exc # "" \/ r.val # NoValue THEN r
    ELSE validate(obj, Tail(sections))

ValidateSection(obj, section, settings, sections) ==
    IF ~has_section(obj.delimited, section)
    THEN [exc |-> "", val |-> <<section, NoValue, NoValue>>]
    ELSE IF settings = NoValue THEN validate(obj, Tail(sections))
    ELSE ValidateRest(CheckSettings(obj.delimited, section, settings[1]), obj, sections)

validate(obj, sections) ==
    IF sections = <<>> THEN [exc |-> "", val |-> NoValue]
    ELSE ValidateSection(obj, sections[1][1], sections[1][2], sections)

\* Config.get_list(section): the keys of undelimited.items(section): [exc, val]
get_list(obj, section) ==
    LET p == obj.undelimited
        d == Update(p.defaults, SectionDict(p, section))
        bad == {i \in 1..Len(d) :
                  d[i][2] # NoValue /\ InterpolateSome(d[i][2][1], d, 1).exc # ""}
    IN  IF ~HasKey(p.sections, section) /\ section # DEFAULTSECT
        THEN [exc |-> "NoSectionError", val |-> <<>>]
        ELSE IF bad # {}
        THEN [exc |-> InterpolateSome(d[CHOOSE i \in bad : \A j \in bad : i <= j][2][1],
                                      d, 1).exc,
              val |-> <<>>]
        ELSE [exc |-> "", val |-> Keys(d)]

_get_item(obj, section, item) == get(obj.delimited, section, item)

\* Config.has_option and Config.options
Config_has_option(obj, section, item) == has_option(obj.delimited, section, item)
Config_options(obj, section) == parser_options(obj.delimited, section)

\* Config.get_string: [exc, val], val a text
get_string(obj, section, item) ==
    LET result == _get_item(obj, section, item)
    IN  IF result.exc # "" THEN [exc |-> result.exc, val |-> <<>>]
        ELSE IF result.val = NoValue THEN [exc |-> "", val |-> <<>>]
        ELSE [exc |-> "", val |-> result.val[1]]

\* the value int() gives to a text that IntParses
RECURSIVE DigitsValue(_)
DigitsValue(t) ==
    IF t = <<>> THEN 0
    ELSE 10 * DigitsValue(SubSeq(t, 1, Len(t) - 1))
         + (CHOOSE d \in 0..9 : Digit(d) = t[Len(t)])
IntValue(t) ==
    LET s == Strip(t)
    IN  IF s[1] = "-" THEN 0 - DigitsValue(Tail(s))
        ELSE IF s[1] = "+" THEN DigitsValue(Tail(s))
        ELSE DigitsValue(s)

\* Config.get_integer: [exc, val], val an integer
get_integer(obj, section, item) ==
    LET result == _get_item(obj, section, item)
    IN  IF result.exc # "" THEN [exc |-> result.exc, val |-> 0]
        ELSE IF result.val = NoValue THEN [exc |-> "TypeError", val |-> 0]
        ELSE IF ~IntParses(result.val[1]) THEN [exc |-> "ValueError", val |-> 0]
        ELSE [exc |-> "", val |-> IntValue(result.val[1])]

TrueNames  == {<<"T", "R", "U", "E">>, <<"T">>, <<"Y", "E", "S">>, <<"Y">>,
               <<"O", "N">>, <<"1">>}
FalseNames == {<<"F", "A", "L", "S", "E">>, <<"F">>, <<"N", "O">>, <<"N">>,
               <<"O", "F", "F">>, <<"0">>}

\* Config.get_boolean: [exc, val], val a boolean
get_boolean(obj, section, item) ==
    LET value == _get_item(obj, section, item)
    IN  IF value.exc # "" THEN [exc |-> value.exc, val |-> FALSE]
        ELSE IF value.val = NoValue THEN [exc |-> "AttributeError", val |-> FALSE]
        ELSE IF Upper(value.val[1]) \in TrueNames THEN [exc |-> "", val |-> TRUE]
        ELSE IF Upper(value.val[1]) \in FalseNames THEN [exc |-> "", val |-> FALSE]
        ELSE [exc |-> "ValueError", val |-> FALSE]

\* Config.merge_section(section, items): [exc, obj]; items is the dict in
\* its order, <<key, value>> pairs of python values
RECURSIVE merge_section(_, _, _)
merge_section(obj, section, items) ==
    IF items = <<>> THEN [exc |-> "", obj |-> obj]
    ELSE
        LET d == set(obj.delimited, section, items[1][1], Str(items[1][2]))
            u == set(obj.undelimited, section, items[1][1], Str(items[1][2]))
        IN  IF d.exc # "" THEN [exc |-> d.exc, obj |-> obj]
            ELSE IF u.exc # ""
            THEN [exc |-> u.exc, obj |-> [obj EXCEPT !.delimited = d.parser]]
            ELSE merge_section([obj EXCEPT !.delimited = d.parser,
                                           !.undelimited = u.parser],
                               section, Tail(items))

\* replace_section without line 330: the section is re-created in the
\* delimited view only
replace_section_one_view(obj, section, items) ==
    LET d1 == remove_section(obj.delimited, section)
        u1 == remove_section(obj.undelimited, section)
        d2 == add_section(d1, section)
    IN  IF d2.exc # ""
        THEN [exc |-> d2.exc, obj |-> [obj EXCEPT !.delimited = d1, !.undelimited = u1]]
        ELSE merge_section([obj EXCEPT !.delimited = d2.parser, !.undelimited = u1],
                           section, items)

\* Config.replace_section(section, items): [exc, obj]
replace_section(obj, section, items) ==
    LET d1 == remove_section(obj.delimited, section)
        u1 == remove_section(obj.undelimited, section)
        d2 == add_section(d1, section)
        u2 == add_section(u1, section)
    IN  IF d2.exc # ""
        THEN [exc |-> d2.exc, obj |-> [obj EXCEPT !.delimited = d1, !.undelimited = u1]]
        ELSE IF u2.exc # ""
        THEN [exc |-> u2.exc,
              obj |-> [obj EXCEPT !.delimited = d2.parser, !.undelimited = u1]]
        ELSE merge_section([obj EXCEPT !.delimited = d2.parser,
                                       !.undelimited = u2.parser],
                           section, items)

\* Config.save: [exc, fs]; open(path, "w") fails on a directory
save(obj, f) ==
    IF f.kind = "dir" THEN [exc |-> "IsADirectoryError", fs |-> f]
    ELSE [exc |-> "", fs |-> [kind |-> "file", lines |-> write(obj.delimited)]]

----------------------------------------------------------------------------
(* Bounds and input domains                                                *)

MaxCalls == 3        \* calls per run of Spec, the construction included
MaxQueryCalls == 2   \* calls per run of SpecQuery
MaxFileCalls == 3    \* calls per run of SpecFile
MaxLines == 4        \* lines of a backing file in SpecFile
MaxSettings == 2     \* settings listed for one section of a validate request

ObjIds == {1, 2}

SectS == <<"S">>
SectT == <<"T">>
OptA == <<"a">>
OptB == <<"b">>

SeqsUpTo(S, n) == UNION {[1..k -> S] : k \in 0..n}
InjectiveSeqs(S) ==
    {q \in SeqsUpTo(S, Cardinality(S)) : \A i, j \in 1..Len(q) : i # j => q[i] # q[j]}

\* the lines backing files are made of in SpecFile
FileLines ==
    { <<"[", "S", "]">>, <<"[", "T", "]">>, <<"[">> \o DEFAULTSECT \o <<"]">>,
      <<"a", "=", "1">>, <<"f", "l", "a", "g">>, <<" ", "y">>, <<>> }

FileSystems ==
    {[kind |-> k, lines |-> <<>>] : k \in {"missing", "dir"}}
    \cup {[kind |-> "file", lines |-> ls] : ls \in SeqsUpTo(FileLines, MaxLines)}

\* the backing files of Spec
MutFiles ==
    { << <<"[", "S", "]">>, <<"a", "=", "0">>, <<"b", "=", "x">> >>,
      << <<"[">> \o DEFAULTSECT \o <<"]">>, <<"a", "=", "7">>,
         <<"[", "S", "]">>, <<"f", "l", "a", "g">>, <<"k", "=", "v", "=", "w">> >> }

MutSections == {SectS, SectT, DEFAULTSECT, <<>>}
ItemKeys == {PyStr(OptA), PyInt(3)}
ItemVals == {PyStr(<<"1">>), PyBool(TRUE), PyStr(<<"5", "%">>)}
\* the dicts callers pass to merge_section and replace_section
Items ==
    UNION {{[i \in 1..Len(ks) |-> <<ks[i], vs[i]>>] : vs \in [1..Len(ks) -> ItemVals]}
           : ks \in InjectiveSeqs(ItemKeys)}

\* the backing files of SpecQuery: section S with options a and b
ALines ==
    {<<"a", "=">> \o v : v \in {<<"t", "r", "u", "e">>, <<"F", "a", "l", "s", "e">>,
                                <<"y", "e", "s">>, <<"0">>, <<"2">>, <<"0", "4", "2">>,
                                <<"o", "n">>, <<"5", "%">>, <<"5", "%", "%">>, <<>>}}
    \cup {OptA}
BLines == {<<"b", " ", "=", " ", "-", "7">>, OptB, <<"[", "T", "]">>}
QueryFiles == {<< <<"[", "S", "]">>, la, lb >> : la \in ALines, lb \in BLines}

QuerySections == {SectS, SectT}
QueryOptions == {OptA, OptB}
SettingNames == {OptA, OptB, <<>>}
SettingTypes == {"bool", "int", ""}
\* what a validate request holds for one section: None or a list of settings
SettingLists == SeqsUpTo(SettingNames \X SettingTypes, MaxSettings)
SectionSpecs == {NoValue} \cup {Some(l) : l \in SettingLists}
\* the dict of a validate request: sections ss, in order, with their specs os
Requirement(ss, os) == [i \in 1..Len(ss) |-> <<ss[i], os[i]>>]

----------------------------------------------------------------------------
(* Actions: one per call                                                   *)

Loaded(i) == objs[i].state = "loaded"

Construct(i) ==
    /\ objs[i].state = "uninit"
    /\ LET r == init(ConfigPath, fs)
       IN  /\ objs' = [objs EXCEPT ![i] = r.obj]
           /\ ret' = [op |-> "init", args |-> <<ConfigPath>>, exc |-> r.exc, val |-> r.val]
    /\ ncalls' = ncalls + 1
    /\ UNCHANGED fs

Validate(i) ==
    /\ Loaded(i)
    /\ \E ss \in InjectiveSeqs(QuerySections) :
         \E os \in [1..Len(ss) -> SectionSpecs] :
           LET r == validate(objs[i], Requirement(ss, os))
           IN  ret' = [op |-> "validate", args |-> <<Requirement(ss, os)>>,
                       exc |-> r.exc, val |-> r.val]
    /\ ncalls' = ncalls + 1
    /\ UNCHANGED <<fs, objs>>

GetList(i) ==
    /\ Loaded(i)
    /\ \E section \in QuerySections :
         LET r == get_list(objs[i], section)
         IN  ret' = [op |-> "get_list", args |-> <<section>>, exc |-> r.exc, val |-> r.val]
    /\ ncalls' = ncalls + 1
    /\ UNCHANGED <<fs, objs>>

HasOption(i) ==
    /\ Loaded(i)
    /\ \E section \in QuerySections, item \in QueryOptions :
         ret' = [op |-> "has_option", args |-> <<section, item>>, exc |-> "",
                 val |-> Config_has_option(objs[i], section, item)]
    /\ ncalls' = ncalls + 1
    /\ UNCHANGED <<fs, objs>>

Options(i) ==
    /\ Loaded(i)
    /\ \E section \in QuerySections :
         LET r == Config_options(objs[i], section)
         IN  ret' = [op |-> "options", args |-> <<section>>, exc |-> r.exc, val |-> r.val]
    /\ ncalls' = ncalls + 1
    /\ UNCHANGED <<fs, objs>>

GetString(i) ==
    /\ Loaded(i)
    /\ \E section \in MutSections, item \in QueryOptions :
         LET r == get_string(objs[i], section, item)
         IN  ret' = [op |-> "get_string", args |-> <<section, item>>,
                     exc |-> r.exc, val |-> r.val]
    /\ ncalls' = ncalls + 1
    /\ UNCHANGED <<fs, objs>>

GetInteger(i) ==
    /\ Loaded(i)
    /\ \E section \in QuerySections, item \in QueryOptions :
         LET r == get_integer(objs[i], section, item)
         IN  ret' = [op |-> "get_integer", args |-> <<section, item>>,
                     exc |-> r.exc, val |-> r.val]
    /\ ncalls' = ncalls + 1
    /\ UNCHANGED <<fs, objs>>

GetBoolean(i) ==
    /\ Loaded(i)
    /\ \E section \in QuerySections, item \in QueryOptions :
         LET r == get_boolean(objs[i], section, item)
         IN  ret' = [op |-> "get_boolean", args |-> <<section, item>>,
                     exc |-> r.exc, val |-> r.val]
    /\ ncalls' = ncalls + 1
    /\ UNCHANGED <<fs, objs>>

MergeSection(i) ==
    /\ Loaded(i)
    /\ \E section \in MutSections, items \in Items :
         LET r == merge_section(objs[i], section, items)
         IN  /\ objs' = [objs EXCEPT ![i] = r.obj]
             /\ ret' = [op |-> "merge_section", args |-> <<section, items>>,
                         exc |-> r.exc, val |-> NoValue]
    /\ ncalls' = ncalls + 1
    /\ UNCHANGED fs

ReplaceSection(i) ==
    /\ Loaded(i)
    /\ \E section \in MutSections, items \in Items :
         LET r == replace_section(objs[i], section, items)
         IN  /\ objs' = [objs EXCEPT ![i] = r.obj]
             /\ ret' = [op |-> "replace_section", args |-> <<section, items>>,
                         exc |-> r.exc, val |-> NoValue]
    /\ ncalls' = ncalls + 1
    /\ UNCHANGED fs

Save(i) ==
    /\ Loaded(i)
    /\ LET r == save(objs[i], fs)
       IN  /\ fs' = r.fs
           /\ ret' = [op |-> "save", args |-> <<>>, exc |-> r.exc, val |-> NoValue]
    /\ ncalls' = ncalls + 1
    /\ UNCHANGED objs

----------------------------------------------------------------------------
(* Specifications                                                          *)

NoCall == [op |-> "", args |-> <<>>, exc |-> "", val |-> NoValue]

\* Spec: one Config, constructed from a backing file, then mutated and read
Init ==
    /\ fs \in {[kind |-> "file", lines |-> ls] : ls \in MutFiles}
    /\ objs = [i \in ObjIds |-> IF i = 1 THEN init(ConfigPath, fs).obj ELSE Uninit]
    /\ ret = [op |-> "init", args |-> <<ConfigPath>>, exc |-> "", val |-> NoValue]
    /\ ncalls = 1

Next ==
    \/ ncalls < MaxCalls /\ MergeSection(1)
    \/ ncalls < MaxCalls /\ ReplaceSection(1)
    \/ ncalls < MaxCalls /\ GetString(1)

Spec == Init /\ [][Next]_vars

\* SpecQuery: one Config, constructed and queried
InitQuery ==
    /\ fs \in {[kind |-> "file", lines |-> ls] : ls \in QueryFiles}
    /\ objs = [i \in ObjIds |-> Uninit]
    /\ ret = NoCall
    /\ ncalls = 0

NextQuery ==
    \/ ncalls < MaxQueryCalls /\ Construct(1)
    \/ ncalls < MaxQueryCalls /\ Validate(1)
    \/ ncalls < MaxQueryCalls /\ GetBoolean(1)
    \/ ncalls < MaxQueryCalls /\ GetString(1)
    \/ ncalls < MaxQueryCalls /\ GetInteger(1)
    \/ ncalls < MaxQueryCalls /\ GetList(1)
    \/ ncalls < MaxQueryCalls /\ HasOption(1)
    \/ ncalls < MaxQueryCalls /\ Options(1)

SpecQuery == InitQuery /\ [][NextQuery]_vars

\* SpecFile: two Configs over one path, constructed and saved
InitFile ==
    /\ fs \in FileSystems
    /\ objs = [i \in ObjIds |-> Uninit]
    /\ ret = NoCall
    /\ ncalls = 0

NextFile ==
    \/ \E i \in ObjIds : ncalls < MaxFileCalls /\ Construct(i)
    \/ \E i \in ObjIds : ncalls < MaxFileCalls /\ Save(i)

SpecFile == InitFile /\ [][NextFile]_vars

----------------------------------------------------------------------------
(* Properties of the mutating calls, checked under Spec                    *)

\* the option names of a dict passed to merge_section or replace_section
StrKeys(items) == \A n \in 1..Len(items) : items[n][1].t = "str"
ItemNames(items) == {items[n][1].s : n \in 1..Len(items)}
\* str(items[k]) for a name k of items
ItemText(items, k) == Str(items[CHOOSE n \in 1..Len(items) : items[n][1].s = k][2])

\* every section but s is the same in parsers p and q, and so are the defaults
OthersUnchanged(p, q, s) ==
    /\ KeySet(q.sections) \ {s} = KeySet(p.sections) \ {s}
    /\ \A t \in KeySet(p.sections) \ {s} : Lookup(q.sections, t) = Lookup(p.sections, t)
    /\ q.defaults = p.defaults

\* C10: in every state reached from a successful construction by
\* merge_section and replace_section calls, the calls that fail part-way
\* included, the delimited and the undelimited view hold the same set of
\* section names.
SameSectionNames ==
    \A i \in ObjIds :
        Loaded(i) =>
            KeySet(objs[i].delimited.sections) = KeySet(objs[i].undelimited.sections)

\* a replace_section of the absent section T that set one option and then
\* failed on the next key
FailedPartWay ==
    /\ ret.op = "replace_section" /\ ret.exc = "TypeError" /\ ret.args[1] = SectT
    /\ HasKey(objs[1].delimited.sections, SectT)
    /\ HasKey(objs[1].undelimited.sections, SectT)
    /\ Lookup(objs[1].delimited.sections, SectT) # <<>>

\* C1: merge_section(section, items) on a store where section is in neither
\* view completes without raising, and afterwards the section exists and
\* get_string(section, k) is str(items[k]) for every key k of items
\* (stated for the section names add_section accepts and non-empty items).
MergeCreatesSection ==
    [][(/\ ret'.op = "merge_section"
        /\ ret'.args[1] \notin {<<>>, DEFAULTSECT}
        /\ ret'.args[2] # <<>> /\ StrKeys(ret'.args[2])
        /\ ~has_section(objs[1].delimited, ret'.args[1])
        /\ ~has_section(objs[1].undelimited, ret'.args[1]))
       => /\ ret'.exc = ""
          /\ has_section(objs'[1].delimited, ret'.args[1])
          /\ has_section(objs'[1].undelimited, ret'.args[1])
          /\ \A k \in ItemNames(ret'.args[2]) :
                get_string(objs'[1], ret'.args[1], k)
                  = [exc |-> "", val |-> ItemText(ret'.args[2], k)]]_vars

\* C3: merge_section(S, items) on an existing section S changes the
\* delimited view as a map override: options of S not named in items keep
\* their value, options named in items get str(items[k]), new options are
\* added, every other section is unchanged (stated for the section names
\* add_section accepts).
MergeIsMapOverride ==
    [][(/\ ret'.op = "merge_section"
        /\ ret'.args[1] \notin {<<>>, DEFAULTSECT}
        /\ StrKeys(ret'.args[2])
        /\ has_section(objs[1].delimited, ret'.args[1]))
       => LET s     == ret'.args[1]
              items == ret'.args[2]
              old   == Lookup(objs[1].delimited.sections, s)
              new   == SectionDict(objs'[1].delimited, s)
          IN  /\ ret'.exc = ""
              /\ KeySet(new) = KeySet(old) \cup ItemNames(items)
              /\ \A k \in KeySet(old) \ ItemNames(items) : Lookup(new, k) = Lookup(old, k)
              /\ \A k \in ItemNames(items) :
                    HasKey(new, k) /\ Lookup(new, k) = Some(ItemText(items, k))
              /\ OthersUnchanged(objs[1].delimited, objs'[1].delimited, s)]_vars

\* C4: replace_section(S, items) succeeds whether or not S existed;
\* afterwards S exists in both views, its options in the delimited view are
\* exactly the keys of items with values str(items[k]), every other section
\* is unchanged, and a second identical call changes nothing (stated for
\* the section names add_section accepts).
ReplaceIsExact ==
    [][(/\ ret'.op = "replace_section"
        /\ StrKeys(ret'.args[2])
        /\ ret'.args[1] \notin {<<>>, DEFAULTSECT})
       => LET s     == ret'.args[1]
              items == ret'.args[2]
              new   == SectionDict(objs'[1].delimited, s)
          IN  /\ ret'.exc = ""
              /\ has_section(objs'[1].delimited, s)
              /\ has_section(objs'[1].undelimited, s)
              /\ KeySet(new) = ItemNames(items)
              /\ \A k \in ItemNames(items) :
                    HasKey(new, k) /\ Lookup(new, k) = Some(ItemText(items, k))
              /\ OthersUnchanged(objs[1].delimited, objs'[1].delimited, s)
              /\ replace_section(objs'[1], s, items) = [exc |-> "", obj |-> objs'[1]]]_vars

----------------------------------------------------------------------------
(* Properties of the queries, checked under SpecQuery                      *)

\* the stored value of an option the delimited view has
StoredValue(obj, section, k) == Lookup(Unified(obj.delimited, section), k)

\* the value is defined and, whatever its case, one of names (upper case)
ValueAmong(v, names) == v # NoValue /\ Upper(v[1]) \in names

StrictBooleans == {<<"T", "R", "U", "E">>, <<"F", "A", "L", "S", "E">>}
TrueAliases == {<<"T", "R", "U", "E">>, <<"T">>, <<"Y", "E", "S">>, <<"Y">>,
                <<"O", "N">>, <<"1">>}
FalseAliases == {<<"F", "A", "L", "S", "E">>, <<"F">>, <<"N", "O">>, <<"N">>,
                 <<"O", "F", "F">>, <<"0">>}

\* C2: validate never raises: on every loaded store, options without a
\* value included, and every well-formed request it returns None or a
\* descriptor (section, option or None, expected type or None).
ValidateNeverRaises ==
    ret.op = "validate" =>
        /\ ret.exc = ""
        /\ \/ ret.val = NoValue
           \/ /\ Len(ret.val) = 3
              /\ ret.val[2] = NoValue => ret.val[3] = NoValue
              /\ ret.val[3] \in {NoValue, Some("boolean"), Some("integer")}

\* what validate is to report for one (setting, type) of a section the store
\* has: NoValue when the setting passes
SettingFailure(obj, section, setting, type) ==
    IF ~has_option(obj.delimited, section, setting)
    THEN <<section, Some(setting), NoValue>>
    ELSE IF type = "bool" /\ ~ValueAmong(StoredValue(obj, section, setting), StrictBooleans)
    THEN <<section, Some(setting), Some("boolean")>>
    ELSE IF /\ type = "int"
            /\ ~(/\ StoredValue(obj, section, setting) # NoValue
                 /\ IntParses(StoredValue(obj, section, setting)[1]))
    THEN <<section, Some(setting), Some("integer")>>
    ELSE NoValue

\* what validate is to report for one section of the request
SectionFailure(obj, section, settings) ==
    IF ~has_section(obj.delimited, section) THEN <<section, NoValue, NoValue>>
    ELSE IF settings = NoValue THEN NoValue
    ELSE LET l == settings[1]
             failing == {n \in 1..Len(l) :
                           SettingFailure(obj, section, l[n][1], l[n][2]) # NoValue}
             first == CHOOSE n \in failing : \A m \in failing : n <= m
         IN  IF failing = {} THEN NoValue
             ELSE SettingFailure(obj, section, l[first][1], l[first][2])

\* the first failure of a request in the caller's order, NoValue when none
FirstFailure(obj, req) ==
    LET failing == {n \in 1..Len(req) : SectionFailure(obj, req[n][1], req[n][2]) # NoValue}
        first == CHOOSE n \in failing : \A m \in failing : n <= m
    IN  IF failing = {} THEN NoValue
        ELSE SectionFailure(obj, req[first][1], req[first][2])

\* every option a request names has a non-empty name
NamesOptions(req) ==
    \A n \in 1..Len(req) :
        req[n][2] # NoValue =>
            \A m \in 1..Len(req[n][2][1]) : req[n][2][1][m][1] # <<>>

\* C5: validate returns the first failure in the caller's order, (section,
\* None, None) for a missing section, (section, option, None) for a missing
\* option, (section, option, "boolean" | "integer") for a type mismatch, and
\* None iff nothing in the request fails.
ValidateReportsFirstFailure ==
    (ret.op = "validate" /\ NamesOptions(ret.args[1])) =>
        /\ ret.exc = ""
        /\ ret.val = FirstFailure(objs[1], ret.args[1])

\* the request {section: [(k, "bool")]}
BoolRequest(section, k) == << <<section, Some(<< <<k, "bool">> >>)>> >>

\* C6: validate({S: [(k, "bool")]}) returns None iff S exists, k exists in S
\* and its value is "true" or "false" in any case; for any other value of an
\* existing k it returns (S, k, "boolean"); and when it returns None,
\* get_boolean(S, k) succeeds.
ValidateBoolIsStrict ==
    \A section \in QuerySections, k \in QueryOptions :
        (ret.op = "validate" /\ ret.args[1] = BoolRequest(section, k)) =>
            LET strict == /\ has_section(objs[1].delimited, section)
                          /\ has_option(objs[1].delimited, section, k)
                          /\ ValueAmong(StoredValue(objs[1], section, k), StrictBooleans)
            IN  /\ ret.exc = ""
                /\ ret.val = NoValue <=> strict
                /\ (has_option(objs[1].delimited, section, k) /\ ~strict)
                      => ret.val = <<section, Some(k), Some("boolean")>>
                /\ ret.val = NoValue => get_boolean(objs[1], section, k).exc = ""

\* C7: get_boolean(section, option) on an existing option returns True
\* exactly for the values true, t, yes, y, on, 1 in any case, False exactly
\* for false, f, no, n, off, 0, raises ValueError for every other value, the
\* empty and the undefined one included, and never changes the store.
GetBooleanAliases ==
    [][(ret'.op = "get_boolean"
          /\ has_option(objs[1].delimited, ret'.args[1], ret'.args[2]))
       => LET v == StoredValue(objs[1], ret'.args[1], ret'.args[2])
          IN  /\ ValueAmong(v, TrueAliases) => ret'.exc = "" /\ ret'.val = TRUE
              /\ ValueAmong(v, FalseAliases) => ret'.exc = "" /\ ret'.val = FALSE
              /\ ~ValueAmong(v, TrueAliases \cup FalseAliases) => ret'.exc = "ValueError"
              /\ objs' = objs /\ fs' = fs]_vars

----------------------------------------------------------------------------
(* Properties of construction and save, checked under SpecFile             *)

\* sub occurs in text t
Contains(t, sub) ==
    \E n \in 0..(Len(t) - Len(sub)) : SubSeq(t, n + 1, n + Len(sub)) = sub

ResolvedPath == <<"/", "w", "/", "c", ".", "i", "n", "i">>

\* C8: construction raises ConfigError with code 2 and a message holding
\* the absolute path whenever the path names no existing file, a missing
\* path and a directory alike; a loaded store comes only from a file.
ConstructNeedsFile ==
    /\ (ret.op = "init" /\ fs.kind # "file") =>
          /\ ret.exc = "ConfigError"
          /\ ret.val.code = 2
          /\ Contains(ret.val.message, ResolvedPath)
    /\ \A i \in ObjIds : Loaded(i) => fs.kind = "file"

\* C9: a store constructed from a file, saved without mutation and
\* constructed again from the same path has the same delimited view:
\* sections, options and values, in the same order; an undefined value
\* stays undefined.  Every store constructed after a save, and the
\* construction itself, is compared with the stores constructed before it.
SaveRoundTrip ==
    /\ \A i, j \in ObjIds :
          (Loaded(i) /\ Loaded(j)) => objs[i].delimited = objs[j].delimited
    /\ (ret.op = "init" /\ \E i \in ObjIds : Loaded(i)) => ret.exc = ""

\* the second store was constructed from what save wrote for the first: a
\* file with two sections, a valued and an undefined option
ReloadedAfterSave ==
    /\ ret.op = "init" /\ ret.exc = "" /\ Loaded(1) /\ Loaded(2)
    /\ fs.lines = << <<"[", "S", "]">>, <<"a", " ", "=", " ", "1">>, <<"f", "l", "a", "g">>,
                     <<>>, <<"[", "T", "]">>, <<>> >>
    /\ objs[2].delimited.sections
         = << <<SectS, << <<OptA, Some(<<"1">>)>>, <<<<"f", "l", "a", "g">>, NoValue>> >> >>,
              <<SectT, <<>>>> >>

====
